---- MODULE Spec2Model ----
(***************************************************************************)
(* Model of the media-search backend core: the chain-of-responsibility     *)
(* runtime (cor.BaseContext, cor.BaseCommand, cor.BaseChain), the Pub/Sub  *)
(* listener that runs a chain per message, the analyze chain built by      *)
(* MediaReaderWorkflow.initializeChain, and the quota-aware model wrapper. *)
(***************************************************************************)
EXTENDS Integers, Sequences, FiniteSets, TLC

VARIABLES
    commands,           \* BaseChain.commands of the listener's handler
    continueOnFailure,  \* BaseChain.continueOnFailure
    payload,            \* msg.Data of every message of the subscription
    runs,               \* one handler run (a cor.BaseContext and the position in Execute) per delivery
    acked,              \* messages on which msg.Ack() was called
    alive,              \* FALSE once a panic has unwound a goroutine of the process
    media,              \* rows of the BigQuery media table, in insertion order
    videoKind,          \* Go type of the handle stored by MediaUpload
    maxOutstanding,     \* number of callbacks the subscription runs at a time
    limiter,            \* QuotaAwareGenerativeAIModel.RateLimit: burst and tokens in the bucket
    gen,                \* one call of GenerateMultiModalResponse per caller
    pool,               \* the worker pool of one SceneExtractor.Execute
    embeddings,         \* rows of the embeddings table
    tick,               \* the timer goroutine of MediaEmbeddingGeneratorWorkflow
    tempDir,            \* files of os.TempDir() made by os.CreateTemp and not removed
    lowRes,             \* objects of the low-res bucket, as files under the GCS FUSE mount point
    cancelled,          \* whether the root context of the application has been cancelled
    listener,           \* a PubSubListener: its command and the commands it was given
    search              \* one call of SearchService.FindScenes

vars == <<commands, continueOnFailure, payload, runs, acked, alive, media, videoKind, maxOutstanding,
          limiter, gen, pool, embeddings, tick, tempDir, lowRes, cancelled, listener, search>>
chainVars == <<commands, continueOnFailure, payload, runs, acked, alive, media, videoKind, maxOutstanding,
               tempDir, lowRes>>
genVars == <<limiter, gen>>
poolVars == <<pool>>
embedVars == <<embeddings, tick>>
procVars == <<cancelled, listener>>
searchVars == <<search>>

\* ---------------------------------------------------------------- bounds
MaxRuns == 2
NCallers == 2
MaxBurst == 2
NSteps == 3
NMsgs == 2
NSpans == 2

RunIds == 1..MaxRuns
Callers == 1..NCallers
Msgs == 1..NMsgs
Names == {"a.mp4"}

\* ---------------------------------------------------------------- cor.Context keys
CtxIn == "__IN__"
CtxOut == "__OUT__"
GetGCSObjectName == "__GCS__OBJ__"
GetVideoUploadFileParameterName == "__VIDEO_UPLOAD_FILE__"
SummaryOutputParamName == "__summary_output__"
SceneOutputParamName == "__scene_output__"
MediaOutputParamName == "__media_output__"

Keys == {CtxIn, CtxOut, GetGCSObjectName, GetVideoUploadFileParameterName,
         SummaryOutputParamName, SceneOutputParamName, MediaOutputParamName}

\* A value of the data map is a Go interface value: its dynamic type and its content.
\* Nil is what Get returns for a key that is not in the map.
Nil == [kind |-> "nil", val |-> "nil"]
Val(k, v) == [kind |-> k, val |-> v]

\* ---------------------------------------------------------------- cor.BaseContext
\* A context that comes with an error some other run has recorded.
NewContextWithError ==
    [data |-> [k \in Keys |-> Nil], errors |-> {[key |-> "other run", err |-> "failed"]},
     tempFiles |-> <<>>, goctx |-> "nil"]

\* NewBaseContext: a new bag, a new error map and a new list of temp files.
NewBaseContext == [data |-> [k \in Keys |-> Nil], errors |-> {}, tempFiles |-> <<>>, goctx |-> "nil"]

Get(c, key) == c.data[key]
Add(c, key, value) == [c EXCEPT !.data[key] = value]
\* A Remove that leaves the key in place.
RemoveNothing(c, key) == c

Remove(c, key) == [c EXCEPT !.data[key] = Nil]
AddError(c, key, err) == [c EXCEPT !.errors = {e \in c.errors : e.key # key} \cup {[key |-> key, err |-> err]}]

\* A test that takes a context without an input for one with errors.
HasErrorsOrNoInput(c) == c.errors # {} \/ c.data[CtxIn] = Nil

\* BaseContext.HasErrors
HasErrors(c) == c.errors # {}

AddTempFile(c, file) == [c EXCEPT !.tempFiles = Append(c.tempFiles, file)]

\* The set of the elements of a sequence.
Range(s) == {s[x] : x \in DOMAIN s}

\* A Close that empties the temp directory.
CloseRemovesAll(c, dir) == {}

\* BaseContext.Close: os.Remove of every tracked temp file; dir is the temp directory.
Close(c, dir) == dir \ Range(c.tempFiles)

\* A SetContext that leaves the Go context of the context as it is.
SetContextKeeps(c, g) == c

\* BaseContext.SetContext
SetContext(c, g) == [c EXCEPT !.goctx = g]

\* ---------------------------------------------------------------- commands
\* A command is its name, its Go type and the keys of cor.BaseCommand.
Cmd(name, type) == [name |-> name, type |-> type, InputParamName |-> "", OutputParamName |-> ""]

GetInputParam(cmd) == IF cmd.InputParamName = "" THEN CtxIn ELSE cmd.InputParamName
GetOutputParam(cmd) == IF cmd.OutputParamName = "" THEN CtxOut ELSE cmd.OutputParamName

\* A test that does not look at the input.
BaseIsExecutableNoInput(cmd, c) == c.goctx # "nil"

\* BaseCommand.IsExecutable: the input is present and a Go context is set.
BaseIsExecutable(cmd, c) == Get(c, GetInputParam(cmd)) # Nil /\ c.goctx # "nil"

\* ---------------------------------------------------------------- values
\* model.NewMedia: the id is the UUIDv5 of the object name in the URL namespace.
UUIDv5(name) == <<"uuid5", "NS_URL", name>>

Spans == 1..NSpans

RECURSIVE InsertSorted(_, _)
InsertSorted(x, s) ==
    IF s = <<>> THEN <<x>>
    ELSE IF x <= Head(s) THEN <<x>> \o s
    ELSE <<Head(s)>> \o InsertSorted(x, Tail(s))

RECURSIVE SortBySequence(_)
SortBySequence(s) == IF s = <<>> THEN <<>> ELSE InsertSorted(Head(s), SortBySequence(Tail(s)))

Perms == {p \in [Spans -> Spans] : \A i, j \in Spans : p[i] = p[j] => i = j}

\* ---------------------------------------------------------------- abstract steps
\* A step of an arbitrary chain: whether its Execute puts its result under its output
\* key and whether it adds an error under its name.
StepOutcomes == [out : BOOLEAN, err : BOOLEAN]

StepExecute(cmd, c, o) ==
    LET c1 == IF o.err THEN AddError(c, cmd.name, "failed") ELSE c
        c2 == IF o.out THEN Add(c1, GetOutputParam(cmd), Val("string", <<"result of", cmd.name>>)) ELSE c1
    IN [c |-> c2, panic |-> FALSE, rows |-> <<>>]

\* ---------------------------------------------------------------- analyze steps
Done(c) == [c |-> c, panic |-> FALSE, rows |-> <<>>]
Panic(c) == [c |-> c, panic |-> TRUE, rows |-> <<>>]

\* An Execute that does not look at the error of json.Unmarshal.
MediaTriggerToGCSObjectUnchecked(cmd, c) ==
    LET in == Get(c, GetInputParam(cmd)) IN
    IF in.kind # "string" THEN Panic(c)
    ELSE LET msg == Val("*cloud.GCSObject", [bucket |-> in.val.bucket, name |-> in.val.name])
         IN Done(Add(Add(c, GetGCSObjectName, msg), GetOutputParam(cmd), msg))

\* MediaTriggerToGCSObject.Execute
MediaTriggerToGCSObjectExecute(cmd, c) ==
    LET in == Get(c, GetInputParam(cmd)) IN
    IF in.kind # "string" THEN Panic(c)
    ELSE IF ~in.val.wellFormed
         THEN Done(AddError(c, cmd.name, "failed to unmarshal GCS notification"))
         ELSE LET msg == Val("*cloud.GCSObject", [bucket |-> in.val.bucket, name |-> in.val.name])
              IN Done(Add(Add(c, GetGCSObjectName, msg), GetOutputParam(cmd), msg))

\* GCSToTempFile.Execute
GCSToTempFileOutcomes == {"ok", "reader", "createTemp", "copy"}

\* The name that os.CreateTemp gives the file of run d.
TempFileName(d) == <<"media-summary-", d>>

GCSToTempFileExecute(cmd, c, o, d) ==
    LET msg == Get(c, GetInputParam(cmd)) IN
    IF msg.kind # "*cloud.GCSObject" THEN Panic(c)
    ELSE IF o # "ok" THEN Done(AddError(c, cmd.name, o))
    ELSE Done(Add(AddTempFile(c, TempFileName(d)), GetOutputParam(cmd), Val("string", TempFileName(d))))

\* MediaUpload.Execute
MediaUploadExecute(cmd, c, kind) ==
    LET gcsFile == Get(c, GetGCSObjectName) IN
    IF gcsFile.kind # "*cloud.GCSObject" THEN Panic(c)
    ELSE LET link == [FileURI |-> <<"gs://", gcsFile.val.bucket, gcsFile.val.name>>]
         IN Done(Add(Add(c, GetVideoUploadFileParameterName, Val(kind, link)),
                     GetOutputParam(cmd), Val("*genai.FileData", link)))

\* MediaSummaryCreator.Execute
MediaSummaryCreatorOutcomes == {"json", "garbage", "fail"}
MediaSummaryCreatorExecute(cmd, c, o) ==
    LET mediaFile == Get(c, GetInputParam(cmd)) IN
    IF mediaFile.kind # "*genai.FileData" THEN Panic(c)
    ELSE IF o = "fail" THEN Done(AddError(c, cmd.name, "gemini request failed"))
    ELSE Done(Add(c, GetOutputParam(cmd), Val("string", [wellFormed |-> o = "json"])))

\* MediaSummaryJsonToStruct.Execute
MediaSummaryJsonToStructExecute(cmd, c) ==
    LET in == Get(c, GetInputParam(cmd))
        gcsFile == Get(c, GetGCSObjectName)
    IN
    IF in.kind # "string" \/ gcsFile.kind # "*cloud.GCSObject" THEN Panic(c)
    ELSE IF ~in.val.wellFormed
         THEN Done(AddError(c, cmd.name, "failed to unmarshal media summary JSON"))
         ELSE LET doc == Val("*model.MediaSummary",
                             [MediaUrl |-> <<"https://storage.mtls.cloud.google.com/", gcsFile.val.bucket, gcsFile.val.name>>,
                              SceneTimeStamps |-> NSpans])
              IN Done(Add(Add(c, GetOutputParam(cmd), doc), CtxOut, doc))

\* SceneExtractor.IsExecutable
SceneExtractorIsExecutable(cmd, c) ==
    Get(c, GetInputParam(cmd)) # Nil /\ Get(c, GetVideoUploadFileParameterName) # Nil

\* SceneExtractor.Execute. An outcome gives, for every time span, what its worker
\* sent to the results channel, and the order in which the results are drained.
SceneExtractorOutcomes == [res : [Spans -> {"ok", "err", "empty"}], order : Perms]

RECURSIVE Drain(_, _, _, _, _)
Drain(cmd, c, o, k, sceneData) ==
    IF k > NSpans THEN [c |-> c, sceneData |-> sceneData]
    ELSE LET i == o.order[k] IN
         IF o.res[i] = "err" THEN Drain(cmd, AddError(c, cmd.name, <<"scene extract failed", i>>), o, k + 1, sceneData)
         ELSE IF o.res[i] = "ok" THEN Drain(cmd, c, o, k + 1, Append(sceneData, i))
         ELSE Drain(cmd, c, o, k + 1, sceneData)

SceneExtractorExecute(cmd, c, o) ==
    LET summary == Get(c, GetInputParam(cmd))
        videoFile == Get(c, GetVideoUploadFileParameterName)
    IN
    IF summary.kind # "*model.MediaSummary" \/ videoFile.kind # "*genai.File" THEN Panic(c)
    ELSE LET r == Drain(cmd, c, o, 1, <<>>)
             sceneData == Val("[]string", r.sceneData)
         IN Done(Add(Add(r.c, GetOutputParam(cmd), sceneData), CtxOut, sceneData))

\* MediaAssembly.Execute: the Media of the summary and of the scenes, ordered by sequence.
MediaAssemblyExecute(cmd, c) ==
    LET summary == Get(c, SummaryOutputParamName)
        scenes == Get(c, SceneOutputParamName)
        gcsFile == Get(c, GetGCSObjectName)
    IN
    IF summary.kind # "*model.MediaSummary" \/ scenes.kind # "[]string" \/ gcsFile.kind # "*cloud.GCSObject"
    THEN Panic(c)
    ELSE LET m == Val("*model.Media", [Id |-> UUIDv5(gcsFile.val.name), MediaUrl |-> summary.val.MediaUrl,
                                       Scenes |-> SortBySequence(scenes.val)])
         IN Done(Add(Add(c, MediaOutputParamName, m), CtxOut, m))

\* MediaPersistToBigQuery.IsExecutable
MediaPersistToBigQueryIsExecutable(cmd, c) == Get(c, MediaOutputParamName) # Nil

\* MediaPersistToBigQuery.Execute: a streaming insert appends the row to the table.
MediaPersistToBigQueryOutcomes == {"ok", "fail"}
MediaPersistToBigQueryExecute(cmd, c, o) ==
    LET m == Get(c, MediaOutputParamName) IN
    IF m.kind # "*model.Media" THEN Panic(c)
    ELSE IF o = "fail" THEN Done(AddError(c, cmd.name, "bigquery insert failed"))
    ELSE [c |-> Add(c, CtxOut, m), panic |-> FALSE, rows |-> <<m.val>>]

\* MediaCleanup.IsExecutable: "yes", "no", or "panic" when the type assertion fails.
MediaCleanupIsExecutable(cmd, c) ==
    LET f == Get(c, GetVideoUploadFileParameterName) IN
    IF f = Nil THEN "no" ELSE IF f.kind # "*genai.FileData" THEN "panic" ELSE "yes"

\* MediaCleanup.Execute
MediaCleanupExecute(cmd, c) ==
    IF Get(c, GetVideoUploadFileParameterName).kind # "*genai.FileData" THEN Panic(c) ELSE Done(c)

\* ---------------------------------------------------------------- resize steps
LowResOutputBucket == "media_low_res_resources"

\* The name that os.CreateTemp gives the output of ffmpeg in run d.
FFMpegTempFileName(d) == <<"ffmpeg-output-", d>>

\* The errors that MoveFile returns: the source cannot be opened, the destination
\* cannot be created, the copy fails, the source cannot be removed.
MoveFileErrors == {"moveOpen", "moveCreate", "moveCopy", "moveRemove"}

FFMpegCommandOutcomes == {"ok", "open", "createTemp", "ffmpeg"} \cup MoveFileErrors

\* FFMpegCommand.Execute: the errors of os.Open and of cmd.Run go to the context; the
\* error of os.CreateTemp is dropped and the nil file is used; the error of MoveFile
\* is dropped.
FFMpegCommandExecute(cmd, c, o) ==
    LET msg == Get(c, GetInputParam(cmd)) IN
    IF msg.kind # "*cloud.GCSObject" \/ o = "createTemp" THEN Panic(c)
    ELSE IF o \in {"open", "ffmpeg"} THEN Done(AddError(c, cmd.name, o))
    ELSE LET outputFile == <<"gcsfuse", LowResOutputBucket, msg.val.name>>
         IN Done(Add(AddTempFile(c, outputFile), CtxOut, Val("string", outputFile)))

\* ---------------------------------------------------------------- cor.BaseChain, the piping and the break
\* A piping that clears the output without moving it to the input.
PipeDropsOutput(c) == Remove(c, CtxOut)

\* The data piping at the end of a loop iteration of BaseChain.Execute.
Pipe(c) ==
    LET outputValue == Get(c, CtxOut)
        c1 == Remove(c, CtxIn)
        c2 == IF outputValue # Nil THEN Add(c1, CtxIn, outputValue) ELSE c1
    IN Remove(c2, CtxOut)

\* A break test that reads the flag the wrong way round.
SkipOnErrorInverted(c, cof) == HasErrors(c) /\ cof

\* The break of the loop: a previous command has failed and the chain does not continue.
SkipOnError(c, cof) == HasErrors(c) /\ ~cof

\* ---------------------------------------------------------------- a chain as a command
\* A chain added to another chain with AddCommand: NewBaseChain leaves continueOnFailure
\* false; its own commands are two steps with the default IsExecutable.
InnerChain == <<Cmd(<<"inner", 1>>, "Step"), Cmd(<<"inner", 2>>, "Step")>>

BaseChainOutcomes == [DOMAIN InnerChain -> StepOutcomes]

\* BaseChain.IsExecutable
BaseChainIsExecutable(cmd, c) == c.goctx # "nil"

\* The loop of BaseChain.Execute from the i-th command of cmds on, on the context c.
RECURSIVE ChainLoop(_, _, _, _, _)
ChainLoop(cmds, i, c, os, cof) ==
    IF i > Len(cmds) \/ SkipOnError(c, cof) THEN c
    ELSE LET c1 == IF BaseIsExecutable(cmds[i], c)
                   THEN SetContext(StepExecute(cmds[i], SetContext(c, cmds[i].name), os[i]).c, "inner")
                   ELSE c
         IN ChainLoop(cmds, i + 1, Pipe(c1), os, cof)

\* BaseChain.Execute as the Execute of a command of another chain.
BaseChainExecute(cmd, c, os) == Done(ChainLoop(InnerChain, 1, SetContext(c, "inner"), os, FALSE))

\* ---------------------------------------------------------------- dispatch on the command's type
\* Command.IsExecutable: "yes", "no", or "panic".
IsExecutable(cmd, c) ==
    CASE cmd.type = "AlwaysStep" -> "yes"
      [] cmd.type = "SceneExtractor" -> IF SceneExtractorIsExecutable(cmd, c) THEN "yes" ELSE "no"
      [] cmd.type = "MediaPersistToBigQuery" -> IF MediaPersistToBigQueryIsExecutable(cmd, c) THEN "yes" ELSE "no"
      [] cmd.type = "MediaCleanup" -> MediaCleanupIsExecutable(cmd, c)
      [] cmd.type = "BaseChain" -> IF BaseChainIsExecutable(cmd, c) THEN "yes" ELSE "no"
      [] OTHER -> IF BaseIsExecutable(cmd, c) THEN "yes" ELSE "no"

\* What the world outside the step decides during its Execute.
Outcomes(cmd) ==
    CASE cmd.type \in {"Step", "AlwaysStep"} -> StepOutcomes
      [] cmd.type = "GCSToTempFile" -> GCSToTempFileOutcomes
      [] cmd.type = "MediaSummaryCreator" -> MediaSummaryCreatorOutcomes
      [] cmd.type = "SceneExtractor" -> SceneExtractorOutcomes
      [] cmd.type = "MediaPersistToBigQuery" -> MediaPersistToBigQueryOutcomes
      [] cmd.type = "FFMpegCommand" -> FFMpegCommandOutcomes
      [] cmd.type = "BaseChain" -> BaseChainOutcomes
      [] OTHER -> {"ok"}

\* Command.Execute
Execute(cmd, c, o, d, kind) ==
    CASE cmd.type \in {"Step", "AlwaysStep"} -> StepExecute(cmd, c, o)
      [] cmd.type = "MediaTriggerToGCSObject" -> MediaTriggerToGCSObjectExecute(cmd, c)
      [] cmd.type = "GCSToTempFile" -> GCSToTempFileExecute(cmd, c, o, d)
      [] cmd.type = "MediaUpload" -> MediaUploadExecute(cmd, c, kind)
      [] cmd.type = "MediaSummaryCreator" -> MediaSummaryCreatorExecute(cmd, c, o)
      [] cmd.type = "MediaSummaryJsonToStruct" -> MediaSummaryJsonToStructExecute(cmd, c)
      [] cmd.type = "SceneExtractor" -> SceneExtractorExecute(cmd, c, o)
      [] cmd.type = "MediaAssembly" -> MediaAssemblyExecute(cmd, c)
      [] cmd.type = "MediaPersistToBigQuery" -> MediaPersistToBigQueryExecute(cmd, c, o)
      [] cmd.type = "MediaCleanup" -> MediaCleanupExecute(cmd, c)
      [] cmd.type = "FFMpegCommand" -> FFMpegCommandExecute(cmd, c, o)
      [] cmd.type = "BaseChain" -> BaseChainExecute(cmd, c, o)

\* The files that the Execute of a command leaves in the temp directory: the file
\* of GCSToTempFile once os.CreateTemp has succeeded, copied or not, and the output
\* of ffmpeg as long as MoveFile has not removed it.
CreateTemp(cmd, o, d) ==
    IF cmd.type = "GCSToTempFile" /\ o \in {"ok", "copy"} THEN {TempFileName(d)}
    ELSE IF cmd.type = "FFMpegCommand" /\ o \in {"ffmpeg"} \cup MoveFileErrors THEN {FFMpegTempFileName(d)}
    ELSE {}

\* The objects that the Execute of a command writes to the low-res bucket: MoveFile
\* creates the destination and copies to it; a failed copy leaves a part of it.
CreateObjects(cmd, c, o) ==
    IF cmd.type = "FFMpegCommand" /\ o \in {"ok", "moveRemove", "moveCopy"}
    THEN {<<Get(c, GetInputParam(cmd)).val.name, IF o = "moveCopy" THEN "partial" ELSE "whole">>}
    ELSE {}

\* os.Create truncates the file of that name when there is one.
PutObjects(bucket, objects) ==
    {b \in bucket : \A x \in objects : x[1] # b[1]} \cup objects

\* ---------------------------------------------------------------- cor.BaseChain, the loop
IdleRun == [pc |-> "idle", msg |-> 0, idx |-> 0, c |-> NewBaseContext, hist |-> <<>>,
            spans |-> <<>>, chainSpan |-> "none", failed |-> FALSE, ack |-> "none", closed |-> 0]

\* A status that does not look at the errors of the context.
ChainSpanAlwaysOk(c) == "Ok"

\* BaseChain.Execute after the loop: the status of the span of the run.
ChainSpanStatus(c) == IF ~HasErrors(c) THEN "Ok" ELSE "Error"

\* One iteration of the loop of BaseChain.Execute, for the command at r.idx, with
\* outcome o of the world; the row it inserts, if any, goes to the media table.
\* The iteration that leaves the loop also sets the status of the span of the run.
Iterate(r, cmd, o, d, cof, kind) ==
    LET c == r.c
        next == IF r.idx = Len(commands) THEN "chainDone" ELSE "running"
    IN
    IF SkipOnError(c, cof)
    THEN [run |-> [r EXCEPT !.pc = "chainDone", !.chainSpan = ChainSpanStatus(c),
                            !.spans = Append(@, [name |-> cmd.name, status |-> "Error", note |-> "skipped"]),
                            !.hist = Append(@, [idx |-> r.idx, act |-> "skipped", in |-> Get(c, CtxIn),
                                                out0 |-> Get(c, CtxOut), out |-> Nil, in1 |-> Get(c, CtxIn), added |-> FALSE,
                                                goctx |-> c.goctx])],
          rows |-> <<>>, files |-> {}, objects |-> {}]
    ELSE LET ex == IsExecutable(cmd, c)
             res == IF ex = "yes" THEN Execute(cmd, SetContext(c, <<"step", r.idx>>), o, d, kind)
                    ELSE [c |-> c, panic |-> ex = "panic", rows |-> <<>>]
         IN
         IF res.panic
         THEN [run |-> [r EXCEPT !.pc = "panicked", !.c = res.c,
                                 !.hist = Append(@, [idx |-> r.idx, act |-> "panicked", in |-> Get(c, CtxIn),
                                                     out0 |-> Get(c, CtxOut), out |-> Nil, in1 |-> Get(c, CtxIn), added |-> FALSE,
                                                     goctx |-> res.c.goctx])],
               rows |-> <<>>, files |-> {}, objects |-> {}]
         ELSE LET c2 == IF ex = "yes" THEN SetContext(res.c, "run") ELSE res.c
                  status == IF HasErrors(c2) THEN "Error" ELSE "Ok"
              IN [run |-> [r EXCEPT !.pc = next, !.idx = @ + 1, !.c = Pipe(c2),
                                    !.chainSpan = IF next = "chainDone" THEN ChainSpanStatus(c2) ELSE @,
                                    !.spans = Append(@, [name |-> cmd.name, status |-> status,
                                                         note |-> IF ex = "yes" THEN "ran" ELSE "not executable"]),
                                    !.hist = Append(@, [idx |-> r.idx,
                                                        act |-> IF ex = "yes" THEN "executed" ELSE "not executable",
                                                        in |-> Get(c, CtxIn), out0 |-> Get(c, CtxOut),
                                                        out |-> Get(res.c, CtxOut),
                                                        in1 |-> Get(res.c, CtxIn),
                                                        added |-> res.c.errors # c.errors,
                                                        goctx |-> IF ex = "yes" THEN SetContext(c, <<"step", r.idx>>).goctx
                                                                 ELSE c.goctx])],
                  rows |-> res.rows,
                  files |-> IF ex = "yes" THEN CreateTemp(cmd, o, d) ELSE {},
                  objects |-> IF ex = "yes" THEN CreateObjects(cmd, c, o) ELSE {}]

\* ---------------------------------------------------------------- actions
\* PubSubListener.Listen, the callback up to the call of the command: a fresh context
\* with the message data under __IN__; BaseChain.Execute opens the span of the run.
Receive(d, m) ==
    /\ alive
    /\ runs[d].pc = "idle"
    /\ \A e \in RunIds : e < d => runs[e].pc # "idle"
    /\ Cardinality({e \in RunIds : runs[e].pc \in {"running", "chainDone"}}) < maxOutstanding
    /\ m \notin acked
    /\ runs' = [runs EXCEPT ![d] =
                  [IdleRun EXCEPT !.pc = "running",
                                  !.msg = m, !.idx = 1, !.chainSpan = "open",
                                  !.c = Add(SetContext(NewBaseContext, "receive-message"),
                                            CtxIn, Val("string", payload[m]))]]
    /\ UNCHANGED <<commands, continueOnFailure, payload, acked, alive, media, videoKind, maxOutstanding, tempDir, lowRes,
                   procVars, searchVars, genVars, poolVars, embedVars>>

\* BaseChain.Execute, one iteration of the loop over the commands.
ChainStep(d) ==
    /\ alive
    /\ runs[d].pc = "running"
    /\ \E o \in Outcomes(commands[runs[d].idx]) :
         LET it == Iterate(runs[d], commands[runs[d].idx], o, d, continueOnFailure, videoKind) IN
         /\ runs' = [runs EXCEPT ![d] = it.run]
         /\ media' = media \o it.rows
         /\ tempDir' = tempDir \cup it.files
         /\ lowRes' = PutObjects(lowRes, it.objects)
         /\ alive' = (it.run.pc # "panicked")
    /\ UNCHANGED <<commands, continueOnFailure, payload, acked, videoKind, maxOutstanding, procVars, searchVars, genVars, poolVars, embedVars>>

\* A decision that acknowledges whatever the context holds.
AckAlways(c) == "ack"

\* PubSubListener.Listen, the decision after the command has returned: msg.Ack() when
\* the context has no errors, and no call on the message otherwise.
AckDecision(c) == IF ~HasErrors(c) THEN "ack" ELSE "none"

\* PubSubListener.Listen, the callback after the command has returned: the decision on
\* the message and the end of the span. Close is not called on the context; the run
\* keeps the list of the files its context tracked.
ListenerReturn(d) ==
    /\ alive
    /\ runs[d].pc = "chainDone"
    /\ runs' = [runs EXCEPT ![d] = [IdleRun EXCEPT !.pc = "returned", !.msg = runs[d].msg,
                                                   !.c.tempFiles = runs[d].c.tempFiles,
                                                   !.failed = HasErrors(runs[d].c),
                                                   !.ack = AckDecision(runs[d].c)]]
    /\ acked' = IF AckDecision(runs[d].c) = "ack" THEN acked \cup {runs[d].msg} ELSE acked
    /\ UNCHANGED <<commands, continueOnFailure, payload, alive, media, videoKind, maxOutstanding, tempDir, lowRes,
                   procVars, searchVars, genVars, poolVars, embedVars>>

Next ==
    \/ \E d \in RunIds, m \in Msgs : Receive(d, m)
    \/ \E d \in RunIds : ChainStep(d)
    \/ \E d \in RunIds : ListenerReturn(d)

MaxCloses == 2

\* The path of an object of the low-res bucket through the GCS FUSE mount point.
LowResPath(b) == <<"gcsfuse", "media_low_res_resources", b[1]>>

\* A Close that removes files of the temp directory only.
CloseLeavesBucket(c, bucket) == bucket

\* BaseContext.Close on the objects of the low-res bucket: os.Remove of a tracked path
\* under the mount point deletes the object.
CloseBucket(c, bucket) == {b \in bucket : LowResPath(b) \notin Range(c.tempFiles)}

\* A call of Close on the context of a run whose callback has returned: os.Remove
\* for every tracked file; an error of os.Remove is logged and the loop goes on.
\* The context itself is not written.
ContextClose(d) ==
    /\ alive
    /\ runs[d].pc = "returned"
    /\ runs[d].closed < MaxCloses
    /\ tempDir' = Close(runs[d].c, tempDir)
    /\ lowRes' = CloseBucket(runs[d].c, lowRes)
    /\ runs' = [runs EXCEPT ![d].closed = @ + 1]
    /\ UNCHANGED <<commands, continueOnFailure, payload, acked, alive, media, videoKind, maxOutstanding,
                   procVars, searchVars, genVars, poolVars, embedVars>>

\* The listener with a caller that closes the contexts of the runs that have ended.
NextClose ==
    \/ Next
    \/ \E d \in RunIds : ContextClose(d)

\* ---------------------------------------------------------------- the quota-aware model
\* MaxRetries of GenerateMultiModalResponse, and the two sleeps of GenerateContent in seconds.
MaxRetries == 3
DeniedSleep == 5
FailureSleep == 60
\* The retry count above which GenerateContent gives up.
RetryLimit == 3

IdleCall == [pc |-> "idle", tryCount |-> 0, retryCounter |-> 0, tokenCounter |-> 0,
             generates |-> 0, granted |-> FALSE, token |-> FALSE, retry |-> "absent",
             rem |-> 0, ret |-> "none", result |-> "none", modelFails |-> 0, slept |-> 0,
             calls |-> 0, atCancel |-> [set |-> FALSE, generates |-> 0, rem |-> 0, calls |-> 0]]

\* A limiter whose bucket starts empty.
NewEmptyBucket(requestsPerSecond) == [burst |-> requestsPerSecond, tokens |-> 0, aged |-> FALSE]

\* NewQuotaAwareModel: rate.NewLimiter(rate.Every(time.Second), requestsPerSecond), a full
\* bucket of requestsPerSecond tokens that gains one token per second; aged tells whether
\* any time has passed since the limiter was made.
NewQuotaAwareModel(requestsPerSecond) ==
    [burst |-> requestsPerSecond, tokens |-> requestsPerSecond, aged |-> FALSE]

\* ctx.Value("retry").(int), 0 when the key is absent.
RetryCount(retry) == IF retry = "absent" THEN 0 ELSE retry

\* A GenerateMultiModalResponse that allows one try more.
AfterGenerateContentOneMore(g, r) ==
    IF r # "ok"
    THEN IF g.tryCount <= MaxRetries
         THEN [g EXCEPT !.pc = "allow", !.retryCounter = @ + 1, !.tryCount = @ + 1,
                        !.generates = @ + 1, !.ret = r,
                        !.token = FALSE, !.retry = "absent"]
         ELSE [g EXCEPT !.pc = "done", !.ret = r, !.result = r, !.token = FALSE, !.retry = "absent"]
    ELSE [g EXCEPT !.pc = "done", !.ret = r, !.result = r, !.tokenCounter = @ + 1,
                   !.token = FALSE, !.retry = "absent"]

\* GenerateMultiModalResponse after model.GenerateContent has returned r to it: on an
\* error, another try while tryCount < MaxRetries, else the error; on a response, the
\* token counts are recorded and the text is returned.
AfterGenerateContent(g, r) ==
    IF r # "ok"
    THEN IF g.tryCount < MaxRetries
         THEN [g EXCEPT !.pc = "allow", !.retryCounter = @ + 1, !.tryCount = @ + 1,
                        !.generates = @ + 1, !.ret = r,
                        !.token = FALSE, !.retry = "absent"]
         ELSE [g EXCEPT !.pc = "done", !.ret = r, !.result = r, !.token = FALSE, !.retry = "absent"]
    ELSE [g EXCEPT !.pc = "done", !.ret = r, !.result = r, !.tokenCounter = @ + 1,
                   !.token = FALSE, !.retry = "absent"]

\* A caller enters GenerateMultiModalResponse with tryCount = 0; its first statement is
\* the call of model.GenerateContent.
GenerateMultiModalResponse(k) ==
    /\ gen[k].pc = "idle"
    /\ gen' = [gen EXCEPT ![k] = [IdleCall EXCEPT !.pc = "allow", !.generates = 1]]
    /\ UNCHANGED <<limiter, chainVars, procVars, searchVars, poolVars, embedVars>>

\* GenerateContent, the test of q.RateLimit.Allow(): a token is taken when there is one,
\* and the goroutine goes to sleep for five seconds when there is none.
Allow(k) ==
    /\ gen[k].pc = "allow"
    /\ IF limiter.tokens > 0
       THEN /\ limiter' = [limiter EXCEPT !.tokens = @ - 1]
            /\ gen' = [gen EXCEPT ![k] = [@ EXCEPT !.pc = "call", !.granted = TRUE, !.token = TRUE,
                                                   !.ret = "none", !.slept = 0]]
       ELSE /\ limiter' = limiter
            /\ gen' = [gen EXCEPT ![k] = [@ EXCEPT !.pc = "sleep", !.granted = FALSE, !.token = FALSE,
                                                   !.rem = DeniedSleep, !.ret = "none", !.slept = 0]]
    /\ UNCHANGED <<chainVars, procVars, searchVars, poolVars, embedVars>>

\* GenerateContent, the branch taken once the model has answered the call made under
\* the token: the response is returned; on an error the retry count of ctx is read, and
\* the goroutine sleeps a minute unless the count is above the limit.
GrantedCallReturns(g, ok) ==
    IF ok THEN AfterGenerateContent(g, "ok")
    ELSE IF RetryCount(g.retry) > RetryLimit
         THEN AfterGenerateContent(g, "failed generation on max retries")
         ELSE [g EXCEPT !.pc = "sleep", !.token = FALSE, !.rem = FailureSleep,
                        !.retry = RetryCount(g.retry) + 1]

\* GenerateContent, the call of q.ModelHandle.GenerateContent made after a sleep: its
\* response or its error is what GenerateContent returns.
LaterCallReturns(g, ok) == AfterGenerateContent(g, IF ok THEN "ok" ELSE "model error")

\* q.ModelHandle.GenerateContent: the model answers with a response or with an error;
\* a request made with a cancelled ctx ends with an error.
ModelHandleGenerateContent(k) ==
    /\ gen[k].pc \in {"call", "recall"}
    /\ \E ok \in (IF cancelled THEN {FALSE} ELSE BOOLEAN) :
         LET g == [gen[k] EXCEPT !.modelFails = IF ok THEN @ ELSE @ + 1, !.calls = @ + 1] IN
         gen' = [gen EXCEPT ![k] = IF g.pc = "call" THEN GrantedCallReturns(g, ok)
                                   ELSE LaterCallReturns(g, ok)]
    /\ UNCHANGED <<limiter, chainVars, procVars, searchVars, poolVars, embedVars>>

\* time.Sleep returns once its duration has passed; the statement after both sleeps is a
\* call of q.ModelHandle.GenerateContent.
SleepReturns(k) ==
    /\ gen[k].pc = "sleep"
    /\ gen[k].rem = 0
    /\ gen' = [gen EXCEPT ![k] = [@ EXCEPT !.pc = "recall"]]
    /\ UNCHANGED <<limiter, chainVars, procVars, searchVars, poolVars, embedVars>>

Sleepers == {k \in Callers : gen[k].pc = "sleep"}
Busy == {k \in Callers : gen[k].pc \in {"allow", "call", "recall"} \/ (gen[k].pc = "sleep" /\ gen[k].rem = 0)}

RECURSIVE MinRem(_)
MinRem(S) ==
    LET k == CHOOSE x \in S : TRUE IN
    IF S = {k} THEN gen[k].rem
    ELSE LET m == MinRem(S \ {k}) IN IF gen[k].rem < m THEN gen[k].rem ELSE m

\* Time passes while no goroutine has a statement to run: up to the end of the shortest
\* sleep, or one second when nobody sleeps. The limiter gains one token per second up
\* to its burst.
TimePasses ==
    /\ Busy = {}
    /\ Sleepers # {} \/ limiter.tokens < limiter.burst
    /\ LET dt == IF Sleepers = {} THEN 1 ELSE MinRem(Sleepers) IN
       /\ limiter' = [limiter EXCEPT !.tokens = IF @ + dt > limiter.burst THEN limiter.burst ELSE @ + dt,
                                     !.aged = TRUE]
       /\ gen' = [k \in Callers |-> IF gen[k].pc = "sleep"
                                    THEN [gen[k] EXCEPT !.rem = @ - dt, !.slept = @ + dt]
                                    ELSE gen[k]]
    /\ UNCHANGED <<chainVars, procVars, searchVars, poolVars, embedVars>>

\* GenerateContent is in the sleep that follows a failed call of the model.
InFailureBackoff(g) == g.pc = "sleep" /\ g.granted

\* main: cancel() of the root context. Nothing in GenerateContent waits on ctx.Done();
\* atCancel records where each call in its failure backoff was at that moment.
Cancel ==
    /\ ~cancelled
    /\ cancelled' = TRUE
    /\ gen' = [k \in Callers |->
                 IF InFailureBackoff(gen[k])
                 THEN [gen[k] EXCEPT !.atCancel = [set |-> TRUE, generates |-> gen[k].generates,
                                                   rem |-> gen[k].rem, calls |-> gen[k].calls]]
                 ELSE gen[k]]
    /\ UNCHANGED <<limiter, chainVars, listener, searchVars, poolVars, embedVars>>

NextGen ==
    \/ \E k \in Callers : GenerateMultiModalResponse(k)
    \/ \E k \in Callers : Allow(k)
    \/ \E k \in Callers : ModelHandleGenerateContent(k)
    \/ \E k \in Callers : SleepReturns(k)
    \/ TimePasses

\* The calls of the model with a root context that main may cancel.
NextGenCancel ==
    \/ Cancel
    \/ NextGen


\* ---------------------------------------------------------------- the embedding timer
\* MediaEmbeddingGeneratorWorkflow: the goroutine of StartTimer runs Execute once per
\* tick of its ticker, one tick after the other, while the analyze chain of other
\* goroutines persists Media rows.
MaxMedia == 2
MaxTicks == 2
ObjectNames == {"a.mp4", "b.mp4"}

IdleTick ==
    [pc |-> "idle", n |-> 0, it |-> <<>>, value |-> 0, k |-> 0, toInsert |-> <<>>,
     errors |-> <<>>, seen |-> 0, selected |-> {}, inserted |-> {}, failed |-> {}, embedded |-> {}]

\* model.NewSceneEmbedding(value.Id, scene.SequenceNumber, m.modelName); tick and row
\* record the tick that made the row and the Media row it was made from.
NewSceneEmbedding(id, sequenceNumber, n, row) ==
    [media_id |-> id, sequence_number |-> sequenceNumber, tick |-> n, row |-> row]

\* A row whose id is a random UUID, new at every creation.
PersistedMediaRandomId(name, scenes) ==
    [Id |-> <<"uuid4", "random", name>>,
     MediaUrl |-> <<"https://storage.mtls.cloud.google.com/", "media_low_res_resources", name>>,
     Scenes |-> [i \in 1..scenes |-> i]]

\* A row of the media table as write-to-bigquery inserts it for an object: the id of
\* the object's name and its scenes by sequence.
PersistedMedia(name, scenes) ==
    [Id |-> UUIDv5(name),
     MediaUrl |-> <<"https://storage.mtls.cloud.google.com/", "media_low_res_resources", name>>,
     Scenes |-> [i \in 1..scenes |-> i]]

\* MediaPersistToBigQuery.Execute at the end of a run of the analyze chain: the row of
\* the delivered object is appended to the media table, whatever the table holds.
PersistMedia ==
    /\ Len(media) < MaxMedia
    /\ \E name \in ObjectNames : \E scenes \in 0..NSpans :
           media' = Append(media, PersistedMedia(name, scenes))
    /\ UNCHANGED <<commands, continueOnFailure, payload, runs, acked, alive, videoKind, maxOutstanding,
                   tempDir, lowRes, procVars, searchVars, genVars, poolVars, embedVars>>

\* SELECT * FROM media WHERE ID NOT IN (SELECT MEDIA_ID FROM embeddings), as the
\* positions of the rows in the media table.
\* A subquery that finds no row.
NoMediaIds(rows) == {}

\* SELECT MEDIA_ID FROM embeddings
MediaIdsWithEmbeddings(rows) == {rows[e].media_id : e \in DOMAIN rows}

RECURSIVE EligibleFrom(_, _, _)
EligibleFrom(i, table, ids) ==
    IF i > Len(table) THEN <<>>
    ELSE IF table[i].Id \in ids
         THEN EligibleFrom(i + 1, table, ids)
         ELSE <<i>> \o EligibleFrom(i + 1, table, ids)

\* A query that returns the first eligible row only.
FindFirstEligibleMedia(table, rows) ==
    LET found == EligibleFrom(1, table, MediaIdsWithEmbeddings(rows))
    IN IF found = <<>> THEN <<>> ELSE <<Head(found)>>

\* m.findEligibleMediaQuery, in the order of the table.
FindEligibleMediaQuery(table, rows) == EligibleFrom(1, table, MediaIdsWithEmbeddings(rows))

\* StartTimer, case <-ticker.C: a new context, and Execute is entered.
TickerFires ==
    /\ alive
    /\ tick.pc = "idle"
    /\ tick.n < MaxTicks
    /\ tick' = [IdleTick EXCEPT !.pc = "read", !.n = tick.n + 1, !.embedded = tick.embedded]
    /\ UNCHANGED <<chainVars, procVars, searchVars, genVars, poolVars, embeddings>>

\* Execute: it, err := q.Read(...); an error ends the tick.
QueryRead ==
    /\ tick.pc = "read"
    /\ \E ok \in BOOLEAN :
           tick' = IF ok
                   THEN LET rows == FindEligibleMediaQuery(media, embeddings) IN
                        [tick EXCEPT !.pc = "next", !.it = rows, !.selected = Range(rows),
                                     !.seen = Len(media)]
                   ELSE [tick EXCEPT !.pc = "idle", !.errors = Append(@, "query failed")]
    /\ UNCHANGED <<chainVars, procVars, searchVars, genVars, poolVars, embeddings>>

\* Execute: err := it.Next(&value); iterator.Done ends the loop, an error ends the tick.
IteratorNext ==
    /\ tick.pc = "next"
    /\ IF tick.it = <<>>
       THEN tick' = [tick EXCEPT !.pc = "idle"]
       ELSE \E ok \in BOOLEAN :
                tick' = IF ok
                        THEN [tick EXCEPT !.pc = "scenes", !.value = Head(tick.it), !.it = Tail(@),
                                          !.k = 1, !.toInsert = <<>>]
                        ELSE [tick EXCEPT !.pc = "idle", !.errors = Append(@, "iterator failed")]
    /\ UNCHANGED <<chainVars, procVars, searchVars, genVars, poolVars, embeddings>>

\* Execute, one scene of value.Scenes: EmbedContent and the append to toInsert. The
\* error of EmbedContent is not the one that is tested, so a failed request leaves
\* resultemb nil and the read of resultemb.Embeddings panics.
EmbedContent ==
    /\ tick.pc = "scenes"
    /\ tick.k <= Len(media[tick.value].Scenes)
    /\ \E ok \in BOOLEAN :
           IF ok
           THEN /\ tick' = [tick EXCEPT
                               !.k = @ + 1,
                               !.toInsert = Append(@, NewSceneEmbedding(media[tick.value].Id,
                                                       media[tick.value].Scenes[tick.k], tick.n, tick.value)),
                               !.embedded = @ \cup {<<tick.n, media[tick.value].Id>>}]
                /\ alive' = alive
           ELSE /\ tick' = [tick EXCEPT !.pc = "panic"]
                /\ alive' = FALSE
    /\ UNCHANGED <<commands, continueOnFailure, payload, runs, acked, media, videoKind, maxOutstanding,
                   tempDir, lowRes, procVars, searchVars, genVars, poolVars, embeddings>>

\* A Put that writes the first row of the batch before it fails.
InserterPutFirstRow(rows, batch, ok) ==
    IF ok THEN rows \o batch ELSE rows \o SubSeq(batch, 1, 1)

\* Inserter.Put: the whole batch is appended to the table, or nothing when the
\* request fails; no request is made for an empty batch.
InserterPut(rows, batch, ok) ==
    IF ok THEN rows \o batch ELSE rows

\* Execute after inserter.Put: the next Media, or AddError and return.
AfterPut(t, ok) ==
    IF ok
    THEN [t EXCEPT !.pc = "next", !.inserted = @ \cup {t.value}]
    ELSE [t EXCEPT !.pc = "idle", !.failed = @ \cup {t.value}, !.errors = Append(@, "put failed")]

\* Execute after the scenes of a Media: inserter.Put(ctx, toInsert).
PutBatch ==
    /\ tick.pc = "scenes"
    /\ tick.k > Len(media[tick.value].Scenes)
    /\ \E ok \in (IF tick.toInsert = <<>> THEN {TRUE} ELSE BOOLEAN) :
           /\ embeddings' = InserterPut(embeddings, tick.toInsert, ok)
           /\ tick' = AfterPut(tick, ok)
    /\ UNCHANGED <<chainVars, procVars, searchVars, genVars, poolVars>>

NextEmbed ==
    \/ PersistMedia
    \/ TickerFires
    \/ QueryRead
    \/ IteratorNext
    \/ EmbedContent
    \/ PutBatch

\* The timer of StartTimer with a root context that main may cancel.
NextEmbedCancel ==
    \/ Cancel
    \/ NextEmbed

\* ---------------------------------------------------------------- the scene worker pool
\* SceneExtractor.Execute at the grain of its goroutines: the jobs and results
\* channels, the WaitGroup, the workers and the loop that drains the results.
MaxWorkers == 2
Workers == 1..MaxWorkers
StubAnswers == {"ok", "err", "empty"}
\* s.GetName() of the SceneExtractor of the analyze chain
SceneExtractorName == "extract-media-scenes"

IdlePool ==
    [pc |-> "idle", numberOfWorkers |-> 0, timeSpans |-> 0, stub |-> <<>>,
     w |-> 0, i |-> 0, jobs |-> <<>>, jobsClosed |-> FALSE,
     results |-> <<>>, resultsClosed |-> FALSE, wg |-> 0,
     worker |-> [k \in Workers |-> [pc |-> "none", j |-> 0]],
     sceneData |-> <<>>, errors |-> <<>>, c |-> NewBaseContext]

\* The state at the entry of Execute: nothing launched, both channels empty.
NewPool(numberOfWorkers, timeSpans, stub) ==
    [IdlePool EXCEPT !.pc = "launch", !.numberOfWorkers = numberOfWorkers,
                     !.timeSpans = timeSpans, !.stub = stub]

\* Channels made without a buffer.
CapacityUnbuffered(p) == 0

\* Capacity of the jobs and of the results channel: len(summary.SceneTimeStamps).
Capacity(p) == p.timeSpans

\* A launch loop that starts one worker whatever numberOfWorkers is.
LaunchWorkersAtLeastOne ==
    /\ pool.pc = "launch"
    /\ pool' = IF pool.w < pool.numberOfWorkers \/ pool.w = 0
               THEN [pool EXCEPT !.w = @ + 1, !.wg = @ + 1, !.worker[pool.w + 1].pc = "range"]
               ELSE [pool EXCEPT !.pc = "send"]
    /\ UNCHANGED <<chainVars, procVars, searchVars, genVars, embedVars>>

\* for w := 1; w <= s.numberOfWorkers; w++ { wg.Add(1); go sceneWorker(...) }
LaunchWorkers ==
    /\ pool.pc = "launch"
    /\ pool' = IF pool.w < pool.numberOfWorkers
               THEN [pool EXCEPT !.w = @ + 1, !.wg = @ + 1, !.worker[pool.w + 1].pc = "range"]
               ELSE [pool EXCEPT !.pc = "send"]
    /\ UNCHANGED <<chainVars, procVars, searchVars, genVars, embedVars>>

\* for i, ts := range summary.SceneTimeStamps { jobs <- job }; close(jobs)
SendJobs ==
    /\ pool.pc = "send"
    /\ pool.i < pool.timeSpans => Len(pool.jobs) < Capacity(pool)
    /\ pool' = IF pool.i < pool.timeSpans
               THEN [pool EXCEPT !.i = @ + 1, !.jobs = Append(@, pool.i + 1)]
               ELSE [pool EXCEPT !.jobsClosed = TRUE, !.pc = "wait"]
    /\ UNCHANGED <<chainVars, procVars, searchVars, genVars, embedVars>>

\* wg.Wait() returns without waiting for the workers.
WaitGroupNoWait(p) == TRUE

\* wg.Wait() returns when the counter of the WaitGroup is zero.
WaitGroupWait(p) == p.wg = 0

\* wg.Wait(); close(results)
WaitAndClose ==
    /\ pool.pc = "wait"
    /\ WaitGroupWait(pool)
    /\ pool' = [pool EXCEPT !.resultsClosed = TRUE, !.pc = "drain"]
    /\ UNCHANGED <<chainVars, procVars, searchVars, genVars, embedVars>>

\* for r := range results { ... }; context.Add(s.GetOutputParam(), sceneData).
\* errors lists the calls of context.AddError; c is the context they are made on,
\* where an error carries the job it came from.
DrainResults ==
    /\ pool.pc = "drain"
    /\ pool' = IF pool.results # <<>>
               THEN LET r == Head(pool.results) IN
                    IF r.err # "nil"
                    THEN [pool EXCEPT !.results = Tail(@), !.errors = Append(@, r.err),
                                      !.c = AddError(@, SceneExtractorName, [err |-> r.err, job |-> r.job])]
                    ELSE [pool EXCEPT !.results = Tail(@), !.sceneData = Append(@, r.value)]
               ELSE [pool EXCEPT !.pc = "done"]
    /\ UNCHANGED <<chainVars, procVars, searchVars, genVars, embedVars>>

\* A receive that leaves the job in the channel.
WorkerReceivePeeks(k) ==
    /\ pool.worker[k].pc = "range"
    /\ pool.jobs # <<>> \/ pool.jobsClosed
    /\ pool' = IF pool.jobs # <<>>
               THEN [pool EXCEPT !.worker[k] = [pc |-> "work", j |-> Head(pool.jobs)]]
               ELSE [pool EXCEPT !.worker[k] = [pc |-> "exited", j |-> 0], !.wg = @ - 1]
    /\ UNCHANGED <<chainVars, procVars, searchVars, genVars, embedVars>>

\* for j := range jobs: the next job, or the end of the loop and the deferred wg.Done()
\* once the channel is closed and empty.
WorkerReceive(k) ==
    /\ pool.worker[k].pc = "range"
    /\ pool.jobs # <<>> \/ pool.jobsClosed
    /\ pool' = IF pool.jobs # <<>>
               THEN [pool EXCEPT !.worker[k] = [pc |-> "work", j |-> Head(pool.jobs)],
                                 !.jobs = Tail(@)]
               ELSE [pool EXCEPT !.worker[k] = [pc |-> "exited", j |-> 0], !.wg = @ - 1]
    /\ UNCHANGED <<chainVars, procVars, searchVars, genVars, embedVars>>

\* The body of the loop for job j: the model's answer for the j-th time span, sent to
\* results when it is an error or a non-empty text.
WorkerRespond(k) ==
    /\ pool.worker[k].pc = "work"
    /\ LET j == pool.worker[k].j
           answer == pool.stub[j]
       IN
       /\ answer # "empty" => Len(pool.results) < Capacity(pool)
       /\ pool' = [pool EXCEPT
               !.worker[k] = [pc |-> "range", j |-> 0],
               !.results = CASE answer = "ok" -> Append(@, [value |-> j, err |-> "nil", job |-> j])
                             [] answer = "err" -> Append(@, [value |-> 0, err |-> "scene extract failed", job |-> j])
                             [] OTHER -> @]
    /\ UNCHANGED <<chainVars, procVars, searchVars, genVars, embedVars>>

NextPool ==
    \/ LaunchWorkers
    \/ SendJobs
    \/ WaitAndClose
    \/ DrainResults
    \/ \E k \in Workers : WorkerReceive(k)
    \/ \E k \in Workers : WorkerRespond(k)

\* ---------------------------------------------------------------- the listener's command
NilCommand == "nil"

\* NewPubSubListener: the listener with the command it is given, which may be nil;
\* given records every command handed to the listener, the constructor's first.
NewPubSubListener(command) == [command |-> command, given |-> <<command>>]

MaxSets == 3
Handlers == {NilCommand, "mediaResizeWorkflow", "mediaIngestion"}

\* A SetCommand that stores whatever it is given.
SetCommandOverwrites(command) ==
    /\ Len(listener.given) <= MaxSets
    /\ listener' = [command |-> command, given |-> Append(listener.given, command)]
    /\ UNCHANGED <<chainVars, cancelled, searchVars, genVars, poolVars, embedVars>>

\* PubSubListener.SetCommand: the command is stored only if none is stored yet.
SetCommand(command) ==
    /\ Len(listener.given) <= MaxSets
    /\ listener' = [command |-> IF listener.command = NilCommand THEN command ELSE listener.command,
                    given |-> Append(listener.given, command)]
    /\ UNCHANGED <<chainVars, cancelled, searchVars, genVars, poolVars, embedVars>>

NextListener == \E command \in Handlers : SetCommand(command)

\* The first command of a sequence that is not nil, and nil if there is none.
RECURSIVE FirstNonNil(_)
FirstNonNil(given) ==
    IF given = <<>> THEN NilCommand
    ELSE IF Head(given) # NilCommand THEN Head(given)
    ELSE FirstNonNil(Tail(given))

\* ---------------------------------------------------------------- SearchService.FindScenes
MaxResults == 2
MaxSearches == 2
Queries == {"a car chase", "a sunset"}

\* No call of FindScenes is under way; calls counts the calls made so far.
IdleSearch ==
    [pc |-> "idle", query |-> "", maxResults |-> 0, rows |-> 0, out |-> <<>>, err |-> "nil",
     failed |-> "none", calls |-> 0]

\* What EmbedContent hands back: a response with the vector of the query, or an error
\* with a response that is nil or that holds no embedding.
EmbedContentResults == {"embedding", "error, nil response", "error, no embedding"}

\* A row of the result of VECTOR_SEARCH scanned into a SceneMatchResult.
SceneMatchResult(i) == [MediaId |-> <<"media", i>>, SequenceNumber |-> i]

\* FindScenes is called: out is made empty; err, the named result, is nil.
FindScenes ==
    /\ search.pc \in {"idle", "returned", "panicked"}
    /\ search.calls < MaxSearches
    /\ \E query \in Queries : \E maxResults \in 1..MaxResults :
           search' = [IdleSearch EXCEPT !.pc = "embed", !.query = query, !.maxResults = maxResults,
                                        !.calls = search.calls + 1]
    /\ UNCHANGED <<chainVars, procVars, genVars, poolVars, embedVars>>

\* s.EmbeddingModel.EmbedContent and the lines up to the query text: the test that
\* follows the call reads err, which is still nil, and not erremb, so the function
\* goes on whatever the call returned; searchEmbeddings.Embeddings[0].Values is
\* a nil dereference or an index out of range when the call has failed.
SearchEmbedContent ==
    /\ search.pc = "embed"
    /\ \E r \in EmbedContentResults :
           search' = IF r = "embedding"
                     THEN [search EXCEPT !.pc = "read"]
                     ELSE [search EXCEPT !.pc = "panicked", !.failed = "embed"]
    /\ UNCHANGED <<chainVars, procVars, genVars, poolVars, embedVars>>

\* q.Read: an error is wrapped and returned with the empty out; otherwise the
\* iterator holds at most maxResults rows.
SearchQueryRead ==
    /\ search.pc = "read"
    /\ \/ search' = [search EXCEPT !.pc = "returned", !.failed = "read",
                                    !.err = "failed to read from BigQuery"]
       \/ \E rows \in 0..search.maxResults : search' = [search EXCEPT !.pc = "next", !.rows = rows]
    /\ UNCHANGED <<chainVars, procVars, genVars, poolVars, embedVars>>

\* itr.Next in the loop: iterator.Done ends the loop and FindScenes returns out and
\* nil; another error is wrapped and returned with the rows scanned so far.
SearchIteratorNext ==
    /\ search.pc = "next"
    /\ \/ /\ search.rows = 0
          /\ search' = [search EXCEPT !.pc = "returned"]
       \/ /\ search.rows > 0
          /\ \/ search' = [search EXCEPT !.rows = @ - 1,
                                          !.out = Append(@, SceneMatchResult(Len(@) + 1))]
             \/ search' = [search EXCEPT !.pc = "returned", !.failed = "scan",
                                          !.err = "failed to iterate results"]
    /\ UNCHANGED <<chainVars, procVars, genVars, poolVars, embedVars>>

NextSearch ==
    \/ FindScenes
    \/ SearchEmbedContent
    \/ SearchQueryRead
    \/ SearchIteratorNext

\* ---------------------------------------------------------------- configurations
StepName(i) == <<"step", i>>
\* A chain of steps with the default IsExecutable, closed by one that is always executable.
AbstractChain == [i \in 1..NSteps |-> Cmd(StepName(i), IF i = NSteps THEN "AlwaysStep" ELSE "Step")]

\* MediaReaderWorkflow.initializeChain
AnalyzeChain ==
    << Cmd("media-trigger-to-gcs-object", "MediaTriggerToGCSObject"),
       Cmd("gcs-to-temp-file", "GCSToTempFile"),
       Cmd("media-upload", "MediaUpload"),
       Cmd("generate-media-summary", "MediaSummaryCreator"),
       [Cmd("convert-media-summary", "MediaSummaryJsonToStruct") EXCEPT !.OutputParamName = SummaryOutputParamName],
       [Cmd("extract-media-scenes", "SceneExtractor") EXCEPT !.OutputParamName = SceneOutputParamName],
       Cmd("assemble-media-scenes", "MediaAssembly"),
       Cmd("write-to-bigquery", "MediaPersistToBigQuery"),
       Cmd("cleanup-file-system", "MediaCleanup") >>

Notifications == [wellFormed : BOOLEAN, bucket : {"media_low_res_resources"}, name : Names]

\* MediaResizeWorkflow.initializeChain
ResizeChain ==
    << Cmd("gcs-topic-listener", "MediaTriggerToGCSObject"),
       Cmd("video-resize", "FFMpegCommand") >>

HiResNotifications == [wellFormed : BOOLEAN, bucket : {"media_high_res_resources"}, name : Names]

InitCommon ==
    /\ pool = IdlePool
    /\ embeddings = <<>>
    /\ tick = IdleTick
    /\ tempDir = {}
    /\ lowRes = {}
    /\ cancelled = FALSE
    /\ search = IdleSearch
    /\ listener = NewPubSubListener(NilCommand)
    /\ limiter = NewQuotaAwareModel(1)
    /\ gen = [k \in Callers |-> IdleCall]
    /\ runs = [d \in RunIds |-> IdleRun]
    /\ acked = {}
    /\ alive = TRUE
    /\ media = <<>>

\* A chain with a chain as its second command, between two steps, closed by a step
\* that is always executable.
NestedChain ==
    <<Cmd(StepName(1), "Step"), Cmd("inner", "BaseChain"), Cmd(StepName(3), "Step"),
      Cmd(StepName(4), "AlwaysStep")>>

\* A listener whose handler is a chain of arbitrary steps, one callback at a time.
Init ==
    /\ InitCommon
    /\ commands = AbstractChain
    /\ continueOnFailure \in BOOLEAN
    /\ payload = [m \in Msgs |-> <<"data of", <<"message", m>>>>]
    /\ videoKind = "*genai.FileData"
    /\ maxOutstanding = 1

\* A chain of two steps.
ShortChain == <<Cmd(StepName(1), "Step"), Cmd(StepName(2), "AlwaysStep")>>

\* A listener whose handler is a chain of two steps, with two callbacks at a time.
InitOverlap ==
    /\ InitCommon
    /\ commands = ShortChain
    /\ continueOnFailure \in BOOLEAN
    /\ payload = [m \in Msgs |-> <<"data of", <<"message", m>>>>]
    /\ videoKind = "*genai.FileData"
    /\ maxOutstanding = 2

\* A listener made with any command, nil included, before any SetCommand.
InitListener ==
    /\ pool = IdlePool
    /\ embeddings = <<>>
    /\ tick = IdleTick
    /\ tempDir = {}
    /\ lowRes = {}
    /\ cancelled = FALSE
    /\ search = IdleSearch
    /\ \E command \in Handlers : listener = NewPubSubListener(command)
    /\ limiter = NewQuotaAwareModel(1)
    /\ gen = [k \in Callers |-> IdleCall]
    /\ runs = [d \in RunIds |-> IdleRun]
    /\ acked = {}
    /\ alive = TRUE
    /\ media = <<>>
    /\ commands = AbstractChain
    /\ continueOnFailure = FALSE
    /\ payload = [m \in Msgs |-> <<"data of", <<"message", m>>>>]
    /\ videoKind = "*genai.FileData"
    /\ maxOutstanding = 1

\* The first two commands of the analyze chain, the second of which tracks a temp file.
TempFileChain == SubSeq(AnalyzeChain, 1, 2)

\* A listener whose handler is the chain that makes a temp file, one callback at a time.
InitClose ==
    /\ InitCommon
    /\ commands = TempFileChain
    /\ continueOnFailure = FALSE
    /\ payload \in [Msgs -> Notifications]
    /\ videoKind = "*genai.FileData"
    /\ maxOutstanding = 1

\* The listener of the low-res topic with the analyze chain, one callback at a time.
InitAnalyzeSerial ==
    /\ InitCommon
    /\ commands = AnalyzeChain
    /\ continueOnFailure = FALSE
    /\ payload \in [Msgs -> Notifications]
    /\ videoKind = "*genai.FileData"
    /\ maxOutstanding = 1

\* A listener whose handler is the chain that holds a chain.
InitNested ==
    /\ InitCommon
    /\ commands = NestedChain
    /\ continueOnFailure \in BOOLEAN
    /\ payload = [m \in Msgs |-> <<"data of", <<"message", m>>>>]
    /\ videoKind = "*genai.FileData"
    /\ maxOutstanding = 1

\* A chain with three steps of the default IsExecutable in a row before its last one.
LongChain == <<Cmd(StepName(1), "Step"), Cmd(StepName(2), "Step"), Cmd(StepName(3), "Step"),
               Cmd(StepName(4), "AlwaysStep")>>

\* A listener whose handler is the chain of four steps, one callback at a time.
InitLong ==
    /\ InitCommon
    /\ commands = LongChain
    /\ continueOnFailure \in BOOLEAN
    /\ payload = [m \in Msgs |-> <<"data of", <<"message", m>>>>]
    /\ videoKind = "*genai.FileData"
    /\ maxOutstanding = 1

\* The listener of the low-res topic with the analyze chain, as SetupListeners wires it.
InitAnalyze ==
    /\ InitCommon
    /\ commands = AnalyzeChain
    /\ continueOnFailure = FALSE
    /\ payload \in [Msgs -> Notifications]
    /\ videoKind = "*genai.FileData"
    /\ maxOutstanding = 2

\* The analyze chain with the handle under __VIDEO_UPLOAD_FILE__ of the type that
\* SceneExtractor.Execute asserts, on well-formed notifications.
InitTyped ==
    /\ InitCommon
    /\ commands = AnalyzeChain
    /\ continueOnFailure = FALSE
    /\ payload \in [Msgs -> {n \in Notifications : n.wellFormed}]
    /\ videoKind = "*genai.File"
    /\ maxOutstanding = 2

\* The listener of the hi-res topic with the resize chain, as SetupListeners wires it.
InitResize ==
    /\ InitCommon
    /\ commands = ResizeChain
    /\ continueOnFailure = FALSE
    /\ payload \in [Msgs -> HiResNotifications]
    /\ videoKind = "*genai.FileData"
    /\ maxOutstanding = 2

\* The listener of the hi-res topic with the resize chain, one callback at a time.
InitResizeSerial ==
    /\ InitCommon
    /\ commands = ResizeChain
    /\ continueOnFailure = FALSE
    /\ payload \in [Msgs -> HiResNotifications]
    /\ videoKind = "*genai.FileData"
    /\ maxOutstanding = 1

\* The quota-aware model alone, called by the callers, for every configured rate.
InitGen ==
    /\ \E requestsPerSecond \in 1..MaxBurst : limiter = NewQuotaAwareModel(requestsPerSecond)
    /\ gen = [k \in Callers |-> IdleCall]
    /\ pool = IdlePool
    /\ embeddings = <<>>
    /\ tick = IdleTick
    /\ tempDir = {}
    /\ lowRes = {}
    /\ cancelled = FALSE
    /\ search = IdleSearch
    /\ listener = NewPubSubListener(NilCommand)
    /\ runs = [d \in RunIds |-> IdleRun]
    /\ acked = {}
    /\ alive = TRUE
    /\ media = <<>>
    /\ commands = <<>>
    /\ continueOnFailure = FALSE
    /\ payload = [m \in Msgs |-> <<"data of", <<"message", m>>>>]
    /\ videoKind = "*genai.FileData"
    /\ maxOutstanding = 0

\* One SceneExtractor.Execute alone, for every number of workers and of time spans of
\* the summary and every answer of the model to each span.
InitPool ==
    /\ \E numberOfWorkers \in 0..MaxWorkers : \E timeSpans \in 0..NSpans :
           \E stub \in [1..timeSpans -> StubAnswers] :
               pool = NewPool(numberOfWorkers, timeSpans, stub)
    /\ limiter = NewQuotaAwareModel(1)
    /\ gen = [k \in Callers |-> IdleCall]
    /\ embeddings = <<>>
    /\ tick = IdleTick
    /\ tempDir = {}
    /\ lowRes = {}
    /\ cancelled = FALSE
    /\ search = IdleSearch
    /\ listener = NewPubSubListener(NilCommand)
    /\ runs = [d \in RunIds |-> IdleRun]
    /\ acked = {}
    /\ alive = TRUE
    /\ media = <<>>
    /\ commands = <<>>
    /\ continueOnFailure = FALSE
    /\ payload = [m \in Msgs |-> <<"data of", <<"message", m>>>>]
    /\ videoKind = "*genai.File"
    /\ maxOutstanding = 0

\* The timer of the embedding workflow next to runs that persist Media rows.
InitEmbed ==
    /\ embeddings = <<>>
    /\ tick = IdleTick
    /\ tempDir = {}
    /\ lowRes = {}
    /\ cancelled = FALSE
    /\ search = IdleSearch
    /\ listener = NewPubSubListener(NilCommand)
    /\ media = <<>>
    /\ alive = TRUE
    /\ pool = IdlePool
    /\ limiter = NewQuotaAwareModel(1)
    /\ gen = [k \in Callers |-> IdleCall]
    /\ runs = [d \in RunIds |-> IdleRun]
    /\ acked = {}
    /\ commands = <<>>
    /\ continueOnFailure = FALSE
    /\ payload = [m \in Msgs |-> <<"data of", <<"message", m>>>>]
    /\ videoKind = "*genai.File"
    /\ maxOutstanding = 0

Spec == Init /\ [][Next]_vars
SpecGen == InitGen /\ [][NextGen]_vars
SpecAnalyze == InitAnalyze /\ [][Next]_vars
SpecTyped == InitTyped /\ [][Next]_vars
SpecResize == InitResize /\ [][Next]_vars
SpecPool == InitPool /\ [][NextPool]_vars
SpecEmbed == InitEmbed /\ [][NextEmbed]_vars
SpecOverlap == InitOverlap /\ [][Next]_vars
SpecListener == InitListener /\ [][NextListener]_vars
SpecClose == InitClose /\ [][NextClose]_vars
SpecSearch == Init /\ [][NextSearch]_vars
\* The pool with a scheduler that lets every goroutine that can take a step take one.
SpecPoolFair == InitPool /\ [][NextPool]_vars /\ WF_vars(NextPool)
SpecAnalyzeSerial == InitAnalyzeSerial /\ [][Next]_vars
SpecNested == InitNested /\ [][Next]_vars
SpecLong == InitLong /\ [][Next]_vars
SpecResizeClose == InitResizeSerial /\ [][NextClose]_vars
SpecGenCancel == InitGen /\ [][NextGenCancel]_vars
SpecEmbedCancel == InitEmbed /\ [][NextEmbedCancel]_vars

\* ---------------------------------------------------------------- properties
Hist(d) == runs[d].hist
Entries(d) == DOMAIN runs[d].hist
SpansOf(d, name) == {k \in DOMAIN runs[d].spans : runs[d].spans[k].name = name}
Executed(d, j) == \E k \in Entries(d) : Hist(d)[k].idx = j /\ Hist(d)[k].act = "executed"

\* C1: in a chain run, when a step leaves a non-nil value v in __OUT__ and the next
\* step of the list is reached and executed, that step finds v under __IN__.
C1_PipingInvariant ==
    \A d \in RunIds : \A k \in Entries(d) :
        (/\ k + 1 \in Entries(d)
         /\ Hist(d)[k].act = "executed"
         /\ Hist(d)[k].out # Nil
         /\ Hist(d)[k + 1].act = "executed")
        => Hist(d)[k + 1].in = Hist(d)[k].out

C1_Witness ==
    \E d \in RunIds : \E k \in Entries(d) :
        /\ k + 1 \in Entries(d)
        /\ Hist(d)[k].act = "executed"
        /\ Hist(d)[k].out # Nil
        /\ Hist(d)[k + 1].act = "executed"
        /\ Hist(d)[k + 1].in = Hist(d)[k].out

\* C2 as stated: without continue-on-failure, once step i has added an error no later
\* step is executed, and every later step has a span that was closed as skipped.
C2_SkipAllSpans ==
    \A d \in RunIds :
        (runs[d].pc = "chainDone" /\ ~continueOnFailure) =>
            \A k \in Entries(d) : Hist(d)[k].added =>
                \A j \in (Hist(d)[k].idx + 1)..Len(commands) :
                    /\ ~Executed(d, j)
                    /\ \E n \in SpansOf(d, commands[j].name) : runs[d].spans[n].note = "skipped"

\* C2 as amended: without continue-on-failure, once step i has added an error no later
\* step is executed; step i+1 alone has a span, closed as skipped, and the loop ends
\* there, so the steps after i+1 have no span at all.
C2_SkipThenBreak ==
    \A d \in RunIds :
        (runs[d].pc = "chainDone" /\ ~continueOnFailure) =>
            \A k \in Entries(d) : Hist(d)[k].added =>
                \A j \in (Hist(d)[k].idx + 1)..Len(commands) :
                    /\ ~Executed(d, j)
                    /\ IF j = Hist(d)[k].idx + 1
                       THEN \E n \in SpansOf(d, commands[j].name) :
                               /\ runs[d].spans[n].note = "skipped"
                               /\ \A n2 \in SpansOf(d, commands[j].name) : n2 = n
                       ELSE SpansOf(d, commands[j].name) = {}

C2_Witness ==
    \E d \in RunIds :
        /\ runs[d].pc = "chainDone"
        /\ ~continueOnFailure
        /\ \E k \in Entries(d) :
             /\ Hist(d)[k].added
             /\ Hist(d)[k].idx + 2 <= Len(commands)
             /\ SpansOf(d, commands[Hist(d)[k].idx + 1].name) # {}

\* C3: a delivery is acknowledged exactly when its handler run has returned with no
\* error in the context; a run that returned with errors left its message alone.
C3_AckIffNoErrors ==
    /\ \A d \in RunIds :
         /\ runs[d].pc = "returned" => (runs[d].ack = "ack" <=> ~runs[d].failed)
         /\ runs[d].pc # "returned" => runs[d].ack = "none"
    /\ acked = {runs[d].msg : d \in {e \in RunIds : runs[e].ack = "ack"}}

C3_Witness ==
    /\ \E d \in RunIds : runs[d].pc = "returned" /\ runs[d].failed /\ runs[d].ack = "none"
    /\ \E d \in RunIds : runs[d].pc = "returned" /\ ~runs[d].failed /\ runs[d].ack = "ack"

SceneStep == CHOOSE i \in DOMAIN AnalyzeChain : AnalyzeChain[i].type = "SceneExtractor"
PartialScenes(d) ==
    /\ Executed(d, SceneStep)
    /\ \E e \in runs[d].c.errors : e.key = AnalyzeChain[SceneStep].name
    /\ Get(runs[d].c, SceneOutputParamName) # Nil
    /\ Get(runs[d].c, SceneOutputParamName).val # <<>>
Over(d) == runs[d].pc \in {"chainDone", "panicked"}
NothingFailed(d) ==
    /\ payload[runs[d].msg].wellFormed
    /\ ~HasErrors(runs[d].c)
    /\ \A k \in Entries(d) : ~Hist(d)[k].added
C7_HappyPath ==
    \A d \in RunIds :
        (Over(d) /\ NothingFailed(d)) =>
            /\ Len(Hist(d)) = Len(commands)
            /\ \A k \in Entries(d) : Hist(d)[k].idx = k /\ Hist(d)[k].act = "executed"
            /\ Cardinality({i \in DOMAIN media : media[i].Id = UUIDv5(payload[runs[d].msg].name)}) = 1

\* C8: no step that is executable on its context panics: the goroutine of a run is
\* never unwound, and the process stays up.
C8_NoPanic ==
    /\ alive
    /\ \A d \in RunIds : \A k \in Entries(d) : Hist(d)[k].act # "panicked"

\* C9: a GenerateContent whose acquire was denied does not call the model before the
\* limiter has granted it a token for that call.
C9_DeniedReacquires ==
    \A k \in Callers : (gen[k].pc = "recall" /\ ~gen[k].granted) => gen[k].token

\* C10: a GenerateContent whose first call of the model was made under a token and
\* failed goes on retrying through the limiter, so the only error it ever returns is
\* the one of the exhausted retries.
C10_OnlyMaxRetriesError ==
    \A k \in Callers :
        (gen[k].granted /\ gen[k].ret # "none") =>
            gen[k].ret \in {"ok", "failed generation on max retries"}

\* C11: a GenerateMultiModalResponse started with tryCount = 0 that ends with an error
\* (every GenerateContent it called has failed) has called GenerateContent exactly
\* MaxRetries + 1 = 4 times, has incremented the retry counter exactly MaxRetries = 3
\* times and has recorded no token count; until then it has made one call more than it
\* has counted retries.
C11_FourCallsThreeRetries ==
    \A k \in Callers :
        /\ gen[k].pc # "idle" => gen[k].generates = gen[k].retryCounter + 1
        /\ gen[k].retryCounter = gen[k].tryCount
        /\ (gen[k].pc = "done" /\ gen[k].result # "ok") =>
               /\ gen[k].generates = 4
               /\ gen[k].retryCounter = 3
               /\ gen[k].tokenCounter = 0

C11_Witness ==
    \E k \in Callers :
        /\ gen[k].pc = "done"
        /\ gen[k].result = "model error"
        /\ gen[k].generates = 4
        /\ gen[k].retryCounter = 3

\* C12: a GenerateMultiModalResponse that is over after the model has failed five
\* times has surfaced the error of the exhausted retries of GenerateContent, with the
\* retry counter incremented exactly three times and no token count recorded.
C12_RetryExhaustion ==
    \A k \in Callers :
        (gen[k].pc = "done" /\ gen[k].modelFails = 5) =>
            /\ gen[k].result = "failed generation on max retries"
            /\ gen[k].retryCounter = 3
            /\ gen[k].tokenCounter = 0

\* C13: on a limiter made with burst R and still full, as long as no time has passed
\* the calls of GenerateContent are granted up to R of them and denied beyond; a
\* granted call reaches the model without having slept, and a denied call only
\* reaches the model after it has slept for at least five seconds.
GrantedCalls == {k \in Callers : gen[k].granted}
DeniedCalls == {k \in Callers : gen[k].pc \in {"sleep", "recall"} /\ ~gen[k].granted}
C13_BurstLaw ==
    /\ ~limiter.aged =>
          /\ Cardinality(GrantedCalls) =
                IF Cardinality(GrantedCalls \cup DeniedCalls) < limiter.burst
                THEN Cardinality(GrantedCalls \cup DeniedCalls) ELSE limiter.burst
          /\ limiter.tokens = limiter.burst - Cardinality(GrantedCalls)
    /\ \A k \in Callers :
          /\ gen[k].pc = "call" => gen[k].slept = 0
          /\ (gen[k].pc = "recall" /\ ~gen[k].granted) => gen[k].slept >= 5

C13_Witness ==
    \E k \in Callers :
        /\ gen[k].pc = "recall"
        /\ ~gen[k].granted
        /\ gen[k].slept = 5
        /\ gen[k].tryCount = 0
        /\ Cardinality(GrantedCalls) = limiter.burst

\* C14: when the model answers every time span i with the scene of sequence i and the
\* pool has at least one worker, the scenes that SceneExtractor.Execute has aggregated
\* at its end are exactly the scenes of the time spans, each once, whatever the number
\* of workers and the interleaving of the goroutines, and no error is recorded.
AllAnswered(p) == \A i \in 1..p.timeSpans : p.stub[i] = "ok"
C14_SetEquivalence ==
    (pool.pc = "done" /\ pool.numberOfWorkers >= 1 /\ AllAnswered(pool)) =>
        /\ {pool.sceneData[x] : x \in DOMAIN pool.sceneData} = 1..pool.timeSpans
        /\ Len(pool.sceneData) = pool.timeSpans
        /\ pool.errors = <<>>

C14_Witness ==
    /\ pool.pc = "done"
    /\ pool.numberOfWorkers = MaxWorkers
    /\ pool.timeSpans = NSpans
    /\ AllAnswered(pool)
    /\ pool.sceneData # <<>>
    /\ pool.sceneData[1] # 1

\* A tick of the embedding timer is over and none of its operations has failed.
TickWithoutFailure == tick.pc = "idle" /\ tick.n >= 1 /\ tick.errors = <<>> /\ alive
HasEmbeddings(id) == \E e \in DOMAIN embeddings : embeddings[e].media_id = id

\* C15 as stated: after a tick in which nothing failed, every row of the media table
\* has at least one row of the embeddings table with its media id.
C15_Completeness ==
    TickWithoutFailure => \A r \in DOMAIN media : HasEmbeddings(media[r].Id)

\* C15, amended: after a tick in which nothing failed, every Media row that was in
\* the table when the tick ran its query and that has at least one scene has at least
\* one row of the embeddings table with its media id.
C15_CompletenessOfScenes ==
    TickWithoutFailure =>
        \A r \in 1..tick.seen : Len(media[r].Scenes) >= 1 => HasEmbeddings(media[r].Id)

C15_Witness ==
    /\ TickWithoutFailure
    /\ Cardinality(tick.inserted) = 2
    /\ \A r \in tick.inserted : Len(media[r].Scenes) >= 1 /\ HasEmbeddings(media[r].Id)
    /\ \E r1, r2 \in tick.inserted : media[r1].Id # media[r2].Id

\* Sequence numbers of the embeddings rows made from row r of the media table.
WrittenFor(r) == {embeddings[e].sequence_number : e \in {x \in DOMAIN embeddings : embeddings[x].row = r}}

\* C16: when the Put of one Media's batch has failed in a tick, the other Media that
\* the tick's query selected have been processed and their batches inserted by the
\* end of the tick.
C16_OthersStillProcessed ==
    (tick.pc = "idle" /\ tick.n >= 1 /\ tick.failed # {}) =>
        (tick.selected \ tick.failed) \subseteq tick.inserted

\* C17: for every row of the media table, the embeddings rows written for it are
\* rows for all of its scenes or no rows at all, whether an embedding request or a
\* Put has failed or not.
C17_NoPartialWrites ==
    \A r \in DOMAIN media : WrittenFor(r) = {} \/ WrittenFor(r) = Range(media[r].Scenes)

C17_Witness ==
    /\ \E r \in tick.failed : Len(media[r].Scenes) = NSpans /\ WrittenFor(r) = {}
    /\ \E r \in tick.inserted : Len(media[r].Scenes) = NSpans /\ WrittenFor(r) = 1..NSpans

\* C18: the embeddings rows of a Media all come from one tick, and no tick later than
\* that one makes an embedding request for the Media: a tick embeds and inserts only
\* Media that had no embeddings rows when it ran its query.
C18_OnlyUnembeddedAgain ==
    /\ \A e1, e2 \in DOMAIN embeddings :
           embeddings[e1].media_id = embeddings[e2].media_id => embeddings[e1].tick = embeddings[e2].tick
    /\ \A c \in tick.embedded : \A e \in DOMAIN embeddings :
           embeddings[e].media_id = c[2] => c[1] <= embeddings[e].tick

C18_Witness ==
    /\ tick.n = 2
    /\ tick.pc = "idle"
    /\ \E e1, e2 \in DOMAIN embeddings :
           /\ embeddings[e1].tick = 1
           /\ embeddings[e2].tick = 2
           /\ <<1, embeddings[e2].media_id>> \in tick.embedded
           /\ <<2, embeddings[e1].media_id>> \notin tick.embedded

C20_TempFilesDeleted ==
    \A d \in RunIds : runs[d].pc = "returned" => Close(runs[d].c, tempDir) = tempDir

\* C21: when a run of the resize chain has returned and its message was acknowledged,
\* the low-res bucket holds an object with the name of the notification.
C21_ResizedObjectExists ==
    \A d \in RunIds :
        (runs[d].pc = "returned" /\ runs[d].ack = "ack") =>
            \E x \in lowRes : x[1] = payload[runs[d].msg].name

\* C22: a GenerateContent that was in its failure backoff when the root context was
\* cancelled does not go on sleeping and makes no further call of the model: as long
\* as it is in that invocation, its remaining sleep and its number of model calls
\* are those of the moment of the cancellation.
C22_BackoffHonoursCancel ==
    \A k \in Callers :
        (gen[k].atCancel.set /\ gen[k].generates = gen[k].atCancel.generates) =>
            /\ gen[k].calls = gen[k].atCancel.calls
            /\ gen[k].pc = "sleep" => gen[k].rem = gen[k].atCancel.rem

\* C23: once the root context of the application is cancelled, no new tick of the
\* embedding timer starts: the number of ticks started stays what it was.
C23_NoTickAfterCancel == [][cancelled => tick'.n = tick.n]_vars

\* C24: when a chain is a command of another chain and has run to its end without
\* errors, the value its last command left as its output (which the chain's own
\* piping has moved to __IN__ when the chain returns) is what the next command of
\* the outer chain finds under __IN__.
C24_NestedOutputPiped ==
    \A d \in RunIds : \A i \in DOMAIN runs[d].hist :
        LET h == runs[d].hist IN
        (/\ i > 1
         /\ commands[h[i - 1].idx].type = "BaseChain"
         /\ h[i - 1].act = "executed"
         /\ ~h[i - 1].added
         /\ h[i - 1].in1 # Nil
         /\ h[i].act # "skipped") => h[i].in = h[i - 1].in1

\* C25: whenever the Execute of a command of the chain starts, the first command
\* included, the context holds nothing under __OUT__.
C25_OutputAbsentAtStart ==
    \A d \in RunIds : \A i \in DOMAIN runs[d].hist :
        runs[d].hist[i].act \in {"executed", "panicked"} => runs[d].hist[i].out0 = Nil

\* A run in which a command has put a value under __OUT__ and the next command
\* has been executed after it.
C25_Witness ==
    \E d \in RunIds : \E i \in DOMAIN runs[d].hist :
        /\ i > 1
        /\ runs[d].hist[i - 1].act = "executed"
        /\ runs[d].hist[i - 1].out # Nil
        /\ runs[d].hist[i].act = "executed"

\* C26: when BaseChain.Execute has left its loop, the span of the run has the status
\* Error if a command added an error during the run, and the status Ok if none did.
C26_ChainSpanStatus ==
    \A d \in RunIds :
        runs[d].pc = "chainDone" =>
            LET added == \E i \in DOMAIN runs[d].hist : runs[d].hist[i].added IN
            /\ added => runs[d].chainSpan = "Error"
            /\ ~added => runs[d].chainSpan = "Ok"

\* A run that ended with the status Error after a command that added an error was
\* followed by one that added none.
C26_Witness ==
    \E d \in RunIds :
        /\ runs[d].pc = "chainDone"
        /\ runs[d].chainSpan = "Error"
        /\ Len(runs[d].hist) > 1
        /\ runs[d].hist[1].added
        /\ ~runs[d].hist[Len(runs[d].hist)].added

\* C27: the runs of the handler, overlapping or not, have a context each: the input
\* a run starts with is the payload of its own message, every error in its context
\* was added by one of its own commands, and a run none of whose commands added an
\* error is acknowledged whatever the other runs have recorded.
C27_ContextsNotShared ==
    \A d \in RunIds :
        runs[d].pc \in {"running", "chainDone"} =>
            LET h == runs[d].hist IN
            /\ h # <<>> => h[1].in = Val("string", payload[runs[d].msg])
            /\ \A e \in runs[d].c.errors :
                   \E i \in DOMAIN h : h[i].added /\ commands[h[i].idx].name = e.key
            /\ (runs[d].pc = "chainDone" /\ \A i \in DOMAIN h : ~h[i].added) =>
                   AckDecision(runs[d].c) = "ack"

\* Two runs for different messages at the same time: one has recorded an error, the
\* other has come to the end of its chain without one.
C27_Witness ==
    \E d, e \in RunIds :
        /\ runs[d].msg # runs[e].msg
        /\ runs[d].pc = "running" /\ HasErrors(runs[d].c)
        /\ runs[e].pc = "chainDone" /\ ~HasErrors(runs[e].c)
        /\ AckDecision(runs[e].c) = "ack"

\* C28: after the constructor and any number of calls of SetCommand, the command of
\* the listener is the first one that was not nil among those it was given, and nil
\* when every one was nil.
C28_FirstHandlerKept == listener.command = FirstNonNil(listener.given)

\* A listener that was given nil, then a command, then a different command.
C28_Witness ==
    \E i, j \in DOMAIN listener.given :
        /\ i < j
        /\ \A k \in 1..(i - 1) : listener.given[k] = NilCommand
        /\ i > 1
        /\ listener.given[i] # NilCommand
        /\ listener.given[j] \notin {NilCommand, listener.given[i]}

\* C29: a second Close of a context does what the first has left to do, which is
\* nothing: it leaves the temp directory and the context as they are and it does
\* not end the process.
C29_CloseIdempotent ==
    [][\A d \in RunIds :
         (runs[d].closed >= 1 /\ runs'[d].closed = runs[d].closed + 1) =>
             /\ tempDir' = tempDir
             /\ runs'[d].c = runs[d].c
             /\ alive']_vars

\* A context that tracked a temp file which its first Close has removed, closed twice.
C29_Witness ==
    \E d \in RunIds :
        /\ runs[d].closed = 2
        /\ runs[d].c.tempFiles # <<>>
        /\ Range(runs[d].c.tempFiles) \cap tempDir = {}

\* The name of the object a row of the media table was made for.
ObjectNameOf(row) == row.MediaUrl[3]

C31_FailureReturnsError ==
    search.failed # "none" => (search.pc = "returned" /\ search.err # "nil")

\* The dispatching loop is about to send a job and the jobs channel is full.
SendBlocked(p) == p.pc = "send" /\ p.i < p.timeSpans /\ Len(p.jobs) >= Capacity(p)

\* Worker k is about to send a result and the results channel is full.
WorkerBlocked(p, k) ==
    p.worker[k].pc = "work" /\ p.stub[p.worker[k].j] # "empty" /\ Len(p.results) >= Capacity(p)

\* C32: with at least one worker and any number of time spans, the dispatching loop
\* never finds the jobs channel full, no worker finds the results channel full, and
\* Execute comes to its end under every interleaving.
C32_NoBlockingAndTermination ==
    /\ [](pool.numberOfWorkers >= 1 =>
            (~SendBlocked(pool) /\ \A k \in Workers : ~WorkerBlocked(pool, k)))
    /\ (pool.numberOfWorkers >= 1) ~> (pool.pc = "done")

\* An Execute with all the workers and all the time spans that has come to its end
\* after answers of every kind.
C32_Witness ==
    /\ pool.pc = "done"
    /\ pool.numberOfWorkers = MaxWorkers
    /\ pool.timeSpans = NSpans
    /\ \E i, j \in 1..pool.timeSpans : pool.stub[i] = "ok" /\ pool.stub[j] = "err"

\* C33: when a command has been executed and has left nothing under __OUT__, or was
\* not executable, the next iteration of the loop finds nothing under __IN__: the
\* input of the earlier command is not handed on.
C33_InputNotCarriedOver ==
    \A d \in RunIds : \A i \in DOMAIN runs[d].hist :
        LET h == runs[d].hist IN
        (/\ i > 1
         /\ \/ h[i - 1].act = "executed" /\ h[i - 1].out = Nil
            \/ h[i - 1].act = "not executable") => h[i].in = Nil

\* A command that had an input and left no output, followed by another iteration.
C33_Witness ==
    \E d \in RunIds : \E i \in DOMAIN runs[d].hist :
        LET h == runs[d].hist IN
        /\ i > 1
        /\ h[i - 1].act = "executed"
        /\ h[i - 1].in # Nil
        /\ h[i - 1].out = Nil
        /\ h[i].act # "skipped"

\* The jobs of the Execute whose model call has failed.
FailedJobs(p) == {j \in 1..p.timeSpans : p.stub[j] = "err"}

\* C34: after the drain, the error of every scene job that failed can be read from
\* the errors of the context: with k failed jobs the context holds k errors.
C34_AllWorkerErrorsKept ==
    (pool.pc = "done" /\ pool.numberOfWorkers >= 1) =>
        /\ \A j \in FailedJobs(pool) : \E e \in pool.c.errors : e.err.job = j
        /\ Cardinality(pool.c.errors) = Cardinality(FailedJobs(pool))

\* C35: while the Execute of a command runs, the Go context of the context is that
\* of the span of this command, which BaseChain.Execute starts from the context of
\* the span of the run; once a command has been executed the Go context is again
\* that of the span of the run, so no command runs under the span of another.
C35_TraceContextSwapped ==
    \A d \in RunIds :
        LET h == runs[d].hist IN
        /\ (runs[d].pc \in {"running", "chainDone"} /\ \E i \in DOMAIN h : h[i].act = "executed")
               => runs[d].c.goctx = "run"
        /\ \A i \in DOMAIN h :
               h[i].act = "executed" => h[i].goctx = <<"step", h[i].idx>>

\* A run in which two commands have been executed one after the other.
C35_Witness ==
    \E d \in RunIds : \E i \in DOMAIN runs[d].hist :
        /\ i > 1
        /\ runs[d].hist[i - 1].act = "executed"
        /\ runs[d].hist[i].act = "executed"
        /\ runs[d].hist[i].goctx # runs[d].hist[i - 1].goctx

\* C36: in a run on a notification that json.Unmarshal rejects, the first command
\* adds an error under its own name and puts nothing under the key of the GCS object
\* or under __OUT__, no later command is executed, and the message is never
\* acknowledged.
C36_MalformedIsFatal ==
    /\ \A m \in Msgs : ~payload[m].wellFormed => m \notin acked
    /\ \A d \in RunIds :
           (runs[d].pc \in {"running", "chainDone"} /\ ~payload[runs[d].msg].wellFormed) =>
               LET h == runs[d].hist IN
               /\ Get(runs[d].c, GetGCSObjectName) = Nil
               /\ \A i \in DOMAIN h :
                      IF i = 1
                      THEN /\ h[i].act = "executed"
                           /\ h[i].out = Nil
                           /\ runs[d].c.errors = {[key |-> commands[1].name,
                                                   err |-> "failed to unmarshal GCS notification"]}
                      ELSE h[i].act = "skipped"

\* The callback has returned from a run on a malformed notification without an
\* acknowledgement.
C36_Witness ==
    \E d \in RunIds :
        /\ runs[d].pc = "returned"
        /\ ~payload[runs[d].msg].wellFormed
        /\ runs[d].failed
        /\ runs[d].ack = "none"

\* The jobs of the Execute that the model answers with a text that is not empty.
AnsweredJobs(p) == {j \in 1..p.timeSpans : p.stub[j] = "ok"}
EmptyJobs(p) == {j \in 1..p.timeSpans : p.stub[j] = "empty"}

\* C37: with at least one worker a scene job is never in two hands, the channel or a
\* worker, and after the drain the values aggregated are those of the jobs answered
\* with a text, each once, and one error was recorded per failed job: values, errors
\* and dropped empty answers add up to the number of time spans.
C37_ExactlyOnce ==
    pool.numberOfWorkers >= 1 =>
        /\ \A k \in Workers : pool.worker[k].pc = "work" =>
               /\ \A x \in DOMAIN pool.jobs : pool.jobs[x] # pool.worker[k].j
               /\ \A l \in Workers \ {k} : pool.worker[l].pc = "work" => pool.worker[l].j # pool.worker[k].j
        /\ pool.pc = "done" =>
               /\ Range(pool.sceneData) = AnsweredJobs(pool)
               /\ Len(pool.sceneData) = Cardinality(AnsweredJobs(pool))
               /\ Len(pool.errors) = Cardinality(FailedJobs(pool))
               /\ Len(pool.sceneData) + Len(pool.errors) + Cardinality(EmptyJobs(pool)) = pool.timeSpans

\* An Execute with all the workers that has ended after a text, an error or an empty
\* answer for each of its time spans, not all of the same kind.
C37_Witness ==
    /\ pool.pc = "done"
    /\ pool.numberOfWorkers = MaxWorkers
    /\ pool.timeSpans = NSpans
    /\ pool.sceneData # <<>>
    /\ FailedJobs(pool) \cup EmptyJobs(pool) # {}

\* C38: a command that is not executable adds no error, and the commands with the
\* default IsExecutable that follow it find no input and are not executable either;
\* a run with such a command in which no executed command fails ends with a context
\* without errors, and the listener acknowledges its message.
C38_NotRunnableIsSilent ==
    \A d \in RunIds :
        LET h == runs[d].hist IN
        /\ \A i \in DOMAIN h :
               h[i].act = "not executable" =>
                   /\ ~h[i].added
                   /\ (i < Len(h) /\ commands[h[i + 1].idx].type = "Step") => h[i + 1].act = "not executable"
        /\ (/\ runs[d].pc = "chainDone"
            /\ \E i \in DOMAIN h : h[i].act = "not executable"
            /\ \A i \in DOMAIN h : ~h[i].added) =>
               /\ ~HasErrors(runs[d].c)
               /\ AckDecision(runs[d].c) = "ack"

\* A run that has ended without errors although two commands in a row were not
\* executable.
C38_Witness ==
    \E d \in RunIds : \E i \in DOMAIN runs[d].hist :
        /\ runs[d].pc = "chainDone"
        /\ ~HasErrors(runs[d].c)
        /\ i > 1
        /\ runs[d].hist[i - 1].act = "not executable"
        /\ runs[d].hist[i].act = "not executable"

\* C39: an Execute with no worker and at least one time span comes to its end under
\* every interleaving, no worker ever asks the model, and at the end the scene list
\* is empty and no error has been recorded.
C39_NoWorkersEmptyResult ==
    /\ [](pool.numberOfWorkers = 0 =>
            /\ \A k \in Workers : pool.worker[k].pc = "none"
            /\ ~SendBlocked(pool)
            /\ pool.pc = "done" =>
                   (pool.sceneData = <<>> /\ pool.errors = <<>> /\ ~HasErrors(pool.c)))
    /\ (pool.numberOfWorkers = 0 /\ pool.timeSpans >= 1) ~> (pool.pc = "done")

\* An Execute without workers that has come to its end with every time span of the
\* summary sent to the jobs channel and left there.
C39_Witness ==
    /\ pool.pc = "done"
    /\ pool.numberOfWorkers = 0
    /\ pool.timeSpans = NSpans
    /\ Len(pool.jobs) = NSpans
    /\ pool.sceneData = <<>>

\* C40: a resize run that has ended without an error tracks the path of its lo-res
\* output as a temp file, and a Close of the context of a run leaves no object of the
\* low-res bucket whose path the context tracks.
C40_CloseDeletesLowRes ==
    /\ [](\A d \in RunIds :
            (runs[d].pc = "returned" /\ ~runs[d].failed) =>
                Range(runs[d].c.tempFiles) = {LowResPath(<<payload[runs[d].msg].name, "whole">>)})
    /\ [][\A d \in RunIds :
            runs'[d].closed = runs[d].closed + 1 =>
                \A b \in lowRes :
                    LowResPath(b) \in Range(runs[d].c.tempFiles) => b \notin lowRes']_vars

\* A resize run that has ended without an error and whose context has been closed,
\* with no object of the name of its message left in the low-res bucket.
C40_Witness ==
    \E d \in RunIds :
        /\ runs[d].pc = "returned"
        /\ runs[d].closed = 1
        /\ runs[d].ack = "ack"
        /\ ~runs[d].failed
        /\ runs[d].c.tempFiles # <<>>
        /\ \A b \in lowRes : b[1] # payload[runs[d].msg].name

====
